---- MODULE Spec2Model ----
(***************************************************************************)
(* Verification model of the agent-orchestration core of                   *)
(* AzureCostOptimization: the tool-calling run loops of the routing agent  *)
(* (RoutingAgent.process_user_message) and of the specialists              *)
(* (<X>Agent.run_conversation), the delegation RoutingAgent.send_message,  *)
(* and the task executor FoundryAgentExecutor of the database agent.       *)
(*                                                                         *)
(* The conversational model service (threads, runs, messages) and the      *)
(* remote agents are the environment: their steps are nondeterministic.    *)
(***************************************************************************)
EXTENDS Integers, Sequences, FiniteSets, TLC

VARIABLES
    kind,          \* which run loop this instance executes
    cards,         \* RoutingAgent.remote_agent_connections / cards keys
    pc,            \* position of the run loop
    runStatus,     \* run.status as held by the loop's local variable `run`
    svcStatus,     \* status of the Run inside the model service
    pending,       \* ToolCalls the service holds while in requires_action
    last_error,    \* run.last_error of the service
    msgs,          \* messages of the thread, oldest first
    tool_calls,    \* the loop's local tool_calls
    idx,           \* index of the for loop over tool_calls
    tool_outputs,  \* the loop's local tool_outputs
    result,        \* what the loop returned (a sequence of strings)
    nextId,        \* next ToolCall id the service hands out
    rounds,        \* requires_action rounds the service has opened
    tick,          \* parity of the number of runs.get polls made
    seen,          \* the ToolCalls of the round the loop last observed
    answered,      \* id -> ToolOutputs submitted for it since that observation
    executed,      \* id -> handler executions for it since that observation
    batches,       \* number of submit_tool_outputs calls made
    lastBatchOk,   \* the last submitted batch matched the observed calls
    outs,          \* id -> output payload submitted for it in that round
    hraised,       \* ids whose handler raised in that round
    delegated,     \* id -> state of the remote Task whose dump answered it
    epc,           \* position of FoundryAgentExecutor.execute
    taskStatus,    \* Task.status
    history,       \* Task.history: the status events published
    ri,            \* index of the executor's loop over responses
    nUpd,          \* number of TaskUpdater calls made
    lastUpd,       \* the most recent TaskUpdater call and its outcome
    cancels,       \* number of cancel requests served
    addresses,     \* remote_agent_addresses passed to RoutingAgent.create
    ai,            \* index of the for loop over the addresses
    dpc,           \* position of RoutingAgent.create
    remote_agent_connections,  \* keys of RoutingAgent.remote_agent_connections
    nFailed,       \* addresses whose resolution failed so far
    vm_size,       \* size of the VM get_vm_right_sizing_recommendations looks at
    cpu_avg,       \* its cpu_average_percent
    rec,           \* the recommendation made for it
    mpc,           \* position of run_all.main
    si,            \* index of main's for loop over servers
    procs,         \* state of each server subprocess
    foundry_agent, \* FoundryAgentExecutor._foundry_agent
    nCreated,      \* agents created on the model service
    req,           \* position of each execute call in _get_or_create_agent
    svcRaised,     \* a call to the model service raised during the request
    azure_agent,   \* RoutingAgent.azure_agent
    current_thread, \* RoutingAgent.current_thread (0: None)
    thread,        \* the thread this request's Run is on (0: none yet)
    context_id,    \* the context_id of this request
    earlier        \* context_id and thread of an earlier request served

loopVars == <<pc, runStatus, tool_calls, idx, tool_outputs, result, tick>>
svcVars  == <<svcStatus, pending, last_error, msgs, nextId, rounds>>
ghostVars == <<seen, answered, executed, batches, lastBatchOk, outs,
              hraised, delegated>>
taskVars == <<epc, taskStatus, history, ri, nUpd, lastUpd, cancels>>
discVars == <<addresses, ai, dpc, remote_agent_connections, nFailed>>
sizeVars == <<vm_size, cpu_avg, rec>>
mainVars == <<mpc, si, procs>>
agentVars == <<foundry_agent, nCreated, req>>
auxVars == <<sizeVars, mainVars, agentVars>>
sessVars == <<svcRaised, azure_agent, current_thread, thread, context_id,
              earlier>>
vars == <<kind, cards, loopVars, svcVars, ghostVars, taskVars, discVars,
          auxVars, sessVars>>

----------------------------------------------------------------------------
(* Bounds of the model *)

MaxBatch  == 2   \* most ToolCalls in one requires_action round
MaxRounds == 2   \* most requires_action rounds of one Run
MaxNewMsgs == 2  \* most agent messages a completing Run adds
MaxCancels == 2  \* most cancel requests for one Task
MaxAddrs == 3    \* most addresses passed to RoutingAgent.create
MaxExecs == 5    \* most execute calls on one FoundryAgentExecutor

MaxIds == MaxBatch * MaxRounds
Ids == 1..MaxIds

----------------------------------------------------------------------------
(* The run loops *)

Kinds == {"routing", "compute", "database", "recommendation"}

\* while run.status in ['queued', 'in_progress', 'requires_action']
Active == {"queued", "in_progress", "requires_action"}

\* The if/elif chain of function names of each loop.
Registered(k) ==
    CASE k = "routing" -> {"send_message"}
      [] k = "compute" -> {"get_vm_metrics", "list_vms",
                           "get_vm_right_sizing_recommendations"}
      [] k = "database" -> {"list_sql_databases", "analyze_sql_elastic_pools",
                            "list_cosmos_db_accounts"}
      [] k = "recommendation" ->
            {"aggregate_compute_findings", "aggregate_storage_findings",
             "aggregate_database_findings", "aggregate_network_findings",
             "aggregate_cost_findings", "generate_summary_report"}

\* json.loads(tool_call.function.arguments) sits before the per-call try
\* in the routing agent and in the compute and storage agents.
DecodesBeforeTry(k) == k \in {"routing", "compute"}

\* The loop calls the handler with the decoded arguments.
PassesArgs(k, name) ==
    \/ k \in {"routing", "compute"}
    \/ k = "recommendation" /\ name = "generate_summary_report"

\* json.loads: an undecodable blob raises, anything else yields an object.
Decode(args) == IF args = "undecodable" THEN "raise" ELSE args

\* No handler around the body: every exception leaves the function.
CatchesNone(k) == FALSE

\* Whether the exception of a failed decode leaves the loop functions.
\* process_user_message wraps everything in try/except Exception and
\* returns a string; run_conversation has no such handler.
CatchesAll(k) == k = "routing"

\* What the model may pass as agent_name: the two names the routing
\* instructions tell it to use.
ModelAgentNames == {"Azure Cost Analysis Agent", "Azure Recommendation Agent"}

\* AgentCard.name of the servers the routing agent may have resolved.
CardNames == {"Azure Cost Analysis Agent",
              "Azure Recommendation Orchestrator Agent"}

\* Argument blobs the model may emit: a blob json.loads rejects, an object
\* that does not fit the function's parameters, and a fitting object.
ArgBlobs == {"undecodable", "mismatch", "valid"}

\* What the environment decides while a handler runs: a capability function
\* returns or raises; a remote agent answers message/send with a transport
\* error, an error response, a non-Task result, or a Task in some state.
HandlerOutcomes == {"ok", "raise"}
RemoteTaskStates == {"working", "completed", "failed"}
Replies == {"transport_error", "non_success", "non_task"} \cup RemoteTaskStates

Outcomes(k) == IF k = "routing" THEN Replies ELSE HandlerOutcomes

ErrorPayloads == {"error_unknown_function", "error_exception",
                  "error_agent_not_found"}

\* What one iteration of the for loop does: it raises or appends an output;
\* ran: the handler was called; hr: the handler raised; remote: the state of
\* the Task the remote agent returned.
Iter(t, o, r, hr, d) ==
    [type |-> t, output |-> o, ran |-> r, hraised |-> hr, remote |-> d]

\* RoutingAgent.send_message(agent_name, task) with the remote's reply h:
\* raises for an unknown agent or a transport error, returns None for a
\* non-success or non-Task reply, and the Task otherwise, whatever its state.
send_message(agent_name, h) ==
    IF agent_name \notin cards THEN [raised |-> TRUE, value |-> "ValueError"]
    ELSE IF h = "transport_error" THEN [raised |-> TRUE, value |-> "httpx"]
    ELSE IF h \in {"non_success", "non_task"}
         THEN [raised |-> FALSE, value |-> "None"]
    ELSE [raised |-> FALSE, value |-> h]

\* One iteration of `for tool_call in tool_calls` of process_user_message.
RoutingIter(c, h) ==
    IF Decode(c.args) = "raise" THEN Iter("raise", "-", FALSE, FALSE, "-")
    ELSE IF c.name = "send_message" THEN
        IF c.args = "mismatch"   \* function_args["agent_name"]: KeyError
        THEN Iter("output", "error_exception", FALSE, FALSE, "-")
        ELSE LET r == send_message(c.agent, h) IN
             IF r.raised
             THEN Iter("output",
                       IF r.value = "ValueError" THEN "error_agent_not_found"
                                                 ELSE "error_exception",
                       TRUE, TRUE, "-")
             ELSE IF r.value = "None"
                  THEN Iter("output", "None", TRUE, FALSE, "-")
                  ELSE Iter("output", "task_dump", TRUE, FALSE, r.value)
    ELSE Iter("output", "error_unknown_function", FALSE, FALSE, "-")

\* One iteration of `for tool_call in tool_calls` of run_conversation.
SpecialistIter(k, c, h) ==
    IF DecodesBeforeTry(k) /\ Decode(c.args) = "raise"
    THEN Iter("raise", "-", FALSE, FALSE, "-")
    ELSE IF c.name \in Registered(k) THEN
        IF PassesArgs(k, c.name) /\ c.args # "valid"
        \* json.loads inside the try, or handler(**function_args): TypeError
        THEN Iter("output", "error_exception", FALSE, FALSE, "-")
        ELSE IF h = "raise"
             THEN Iter("output", "error_exception", TRUE, TRUE, "-")
             ELSE Iter("output", "result", TRUE, FALSE, "-")
    ELSE Iter("output", "error_unknown_function", FALSE, FALSE, "-")

LoopIter(k, c, h) ==
    IF k = "routing" THEN RoutingIter(c, h) ELSE SpecialistIter(k, c, h)

----------------------------------------------------------------------------
(* The thread's messages and the loops' return values *)

Texts == {"t1", "t2"}

UserMsg == [role |-> "user", texts |-> <<"request">>]

\* Messages a completing Run may add: agent messages with zero, one or two
\* text items.
AgentMsgs == { [role |-> "assistant", texts |-> t] :
                 t \in {<<>>, <<"t1">>, <<"t1", "t2">>} }

Reverse(s) == [i \in 1..Len(s) |-> s[Len(s) + 1 - i]]

RECURSIVE Flatten(_)
Flatten(ss) == IF ss = <<>> THEN <<>> ELSE Head(ss) \o Flatten(Tail(ss))

\* messages.list(order=DESCENDING), kept to the assistant's messages.
AssistantDesc(ms) == SelectSeq(Reverse(ms), LAMBDA m : m.role = "assistant")

\* database, network, cost analysis, recommendation: every text item of
\* every assistant message, newest message first.
AllResponses(ms) == Flatten([i \in 1..Len(AssistantDesc(ms)) |->
                                AssistantDesc(ms)[i].texts])

\* compute, storage: the text items of the newest assistant message that
\* has text, or the sentinel.
LatestResponses(ms) ==
    LET withText == SelectSeq(AssistantDesc(ms), LAMBDA m : m.texts # <<>>)
    IN IF withText = <<>> THEN <<"No response received">>
       ELSE withText[1].texts

\* routing: the last text item of the newest assistant message that has
\* text, or the sentinel.
RoutingResponse(ms) ==
    LET withText == SelectSeq(AssistantDesc(ms), LAMBDA m : m.texts # <<>>)
    IN IF withText = <<>> THEN <<"No response received from agent.">>
       ELSE <<withText[1].texts[Len(withText[1].texts)]>>

\* What the loop returns once run.status left the active states.
Returned(k, status, ms) ==
    IF status = "failed"
    THEN IF k = "routing" THEN <<"Error processing request: Run error">>
                          ELSE <<"Error: last_error">>
    ELSE CASE k = "routing" -> RoutingResponse(ms)
           [] k = "compute" -> LatestResponses(ms)
           [] OTHER -> AllResponses(ms)

----------------------------------------------------------------------------
(* The model service: the environment *)

\* Function names the model emits: one registered name without parameters
\* use, the registered name whose arguments are decoded, and a name that is
\* not registered.
EmittedNames(k) ==
    CASE k = "routing" -> {"send_message", "delete_resources"}
      [] k = "compute" -> {"list_vms", "delete_resources"}
      [] k = "database" -> {"list_sql_databases", "delete_resources"}
      [] k = "recommendation" ->
            {"aggregate_cost_findings", "generate_summary_report",
             "delete_resources"}

\* The shapes of ToolCall the model may emit to loop k (without the id).
CallShapes(k) ==
    { [name |-> n, args |-> a, agent |-> g] :
        n \in EmittedNames(k), a \in ArgBlobs, g \in ModelAgentNames \cup {"-"} }

\* agent_name is read only from a fitting send_message blob.
WellFormed(k, c) ==
    /\ (c.agent # "-") <=> (k = "routing" /\ c.name = "send_message"
                              /\ c.args = "valid")
    /\ (c.args = "mismatch") => PassesArgs(k, c.name) /\ c.name \in Registered(k)

Shapes(k) == { c \in CallShapes(k) : WellFormed(k, c) }

NewCalls(k, n, first) ==
    { [j \in 1..n |-> [id |-> first + j - 1, name |-> sh[j].name,
                       args |-> sh[j].args, agent |-> sh[j].agent]] :
        sh \in [1..n -> Shapes(k)] }

SvcStart ==
    /\ svcStatus = "queued"
    /\ svcStatus' = "in_progress"
    /\ UNCHANGED <<sessVars, auxVars, discVars, kind, cards, loopVars, ghostVars, taskVars,
                   pending, last_error, msgs, nextId, rounds>>

SvcRequire ==
    /\ svcStatus = "in_progress"
    /\ rounds < MaxRounds
    /\ \E n \in 1..MaxBatch : \E cs \in NewCalls(kind, n, nextId) :
          /\ pending' = cs
          /\ nextId' = nextId + n
    /\ svcStatus' = "requires_action"
    /\ rounds' = rounds + 1
    /\ UNCHANGED <<sessVars, auxVars, discVars, kind, cards, loopVars, ghostVars, taskVars,
                   last_error, msgs>>

SvcComplete ==
    /\ svcStatus = "in_progress"
    /\ \E n \in 0..MaxNewMsgs : \E new \in [1..n -> AgentMsgs] :
          msgs' = msgs \o new
    /\ svcStatus' = "completed"
    /\ UNCHANGED <<sessVars, auxVars, discVars, kind, cards, loopVars, ghostVars, taskVars,
                   pending, last_error, nextId, rounds>>

SvcFail ==
    /\ svcStatus = "in_progress"
    /\ svcStatus' = "failed"
    /\ last_error' = "last_error"
    /\ UNCHANGED <<sessVars, auxVars, discVars, kind, cards, loopVars, ghostVars, taskVars,
                   pending, msgs, nextId, rounds>>

----------------------------------------------------------------------------
(* The steps of process_user_message / run_conversation *)

IdsOf(cs) == { cs[j].id : j \in 1..Len(cs) }

\* The function is left, by return or by an exception: its locals are gone.
Leave ==
    /\ runStatus' = "none"
    /\ tool_calls' = <<>>
    /\ tool_outputs' = <<>>
    /\ idx' = 1

\* threads.create() of a specialist: a thread no request has used.
NewThread == earlier.thread + 1

\* The thread a request runs on: the routing agent's current_thread, made
\* once by create_agent; a new thread in every run_conversation.
ThreadFor(k) == IF k = "routing" THEN current_thread ELSE NewThread

\* process_user_message before its try: the agent or the thread is missing.
NotInitialized ==
    /\ kind = "routing"
    /\ pc = "start"
    /\ azure_agent = "none" \/ current_thread = 0
    /\ result' = IF azure_agent = "none"
                 THEN <<"Azure AI Agent not initialized. Please ensure the agent is properly created.">>
                 ELSE <<"Azure AI Thread not initialized. Please ensure the agent is properly created.">>
    /\ pc' = "ret"
    /\ UNCHANGED <<sessVars, auxVars, discVars, kind, cards, runStatus,
                   tool_calls, idx, tool_outputs, tick, svcVars, ghostVars,
                   taskVars>>

\* The next call to the model service raises: threads.create,
\* messages.create or runs.create at the start, runs.get in the loop,
\* submit_tool_outputs, or messages.list after the loop.  The exception ends
\* process_user_message with its catch-all string and leaves
\* run_conversation.
ServiceCallRaises ==
    /\ pc \in {"start", "poll", "submit"} \/ (pc = "after" /\ runStatus # "failed")
    /\ kind = "routing" => (azure_agent # "none" /\ current_thread # 0)
    /\ svcRaised' = TRUE
    /\ IF CatchesAll(kind)
       THEN /\ pc' = "ret"
            /\ result' = <<"An error occurred while processing your message.">>
       ELSE /\ pc' = "raised"
            /\ result' = result
    /\ Leave
    /\ UNCHANGED <<auxVars, discVars, kind, cards, tick, svcVars, ghostVars,
                   taskVars, azure_agent, current_thread, thread, context_id,
                   earlier>>

\* messages.create and runs.create: the Run starts queued.
CreateRun ==
    /\ pc = "start"
    /\ kind = "routing" => (azure_agent # "none" /\ current_thread # 0)
    /\ thread' = ThreadFor(kind)
    /\ msgs' = Append(msgs, UserMsg)
    /\ svcStatus' = "queued"
    /\ runStatus' = "queued"
    /\ pc' = "poll"
    /\ UNCHANGED <<svcRaised, azure_agent, current_thread, context_id,
                   earlier, auxVars, discVars, kind, cards, tool_calls, idx,
                   tool_outputs, result, tick,
                   pending, last_error, nextId, rounds, ghostVars, taskVars>>

\* One pass of the while loop up to the for loop: sleep, runs.get, and the
\* test of run.status.
Poll ==
    /\ pc = "poll"
    /\ runStatus \in Active
    /\ runStatus' = svcStatus
    /\ tick' = 1 - tick
    /\ IF svcStatus = "requires_action"
       THEN /\ tool_calls' = pending
            /\ tool_outputs' = <<>>
            /\ idx' = 1
            /\ seen' = pending
            /\ answered' = [i \in Ids |-> 0]
            /\ executed' = [i \in Ids |-> 0]
            /\ outs' = [i \in Ids |-> "-"]
            /\ hraised' = {}
            /\ delegated' = [i \in Ids |-> "-"]
            /\ pc' = "exec"
       ELSE /\ pc' = IF svcStatus \in Active THEN "poll" ELSE "after"
            /\ UNCHANGED <<tool_calls, tool_outputs, idx, seen, answered,
                           executed, outs, hraised, delegated>>
    /\ UNCHANGED <<sessVars, auxVars, discVars, kind, cards, result, svcVars, batches, lastBatchOk,
                   taskVars>>

\* submit_tool_outputs moved into the for loop: a submission after each call.
AfterCallEach(i, n) == "submit"

\* Where the loop is after the i-th of n calls: submit_tool_outputs comes
\* after the for loop.
AfterCall(i, n) == IF i = n THEN "submit" ELSE "exec"

\* One iteration of the for loop over tool_calls; h is what the handler's
\* environment does.  An exception that leaves the iteration ends
\* process_user_message with its catch-all string, and leaves
\* run_conversation as an exception.
ExecCall ==
    /\ pc = "exec"
    /\ idx <= Len(tool_calls)
    /\ \E h \in Outcomes(kind) :
        LET c == tool_calls[idx]
            it == LoopIter(kind, c, h)
        IN /\ executed' = IF it.ran
                          THEN [executed EXCEPT ![c.id] = @ + 1]
                          ELSE executed
           /\ hraised' = IF it.hraised THEN hraised \cup {c.id} ELSE hraised
           /\ IF it.type = "raise"
              THEN /\ IF CatchesAll(kind)
                      THEN /\ pc' = "ret"
                           /\ result' = <<"An error occurred while processing your message.">>
                      ELSE /\ pc' = "raised"
                           /\ result' = result
                   /\ Leave
                   /\ UNCHANGED delegated
              ELSE /\ tool_outputs' = Append(tool_outputs,
                          [tool_call_id |-> c.id, output |-> it.output])
                   /\ delegated' = [delegated EXCEPT ![c.id] = it.remote]
                   /\ idx' = idx + 1
                   /\ pc' = AfterCall(idx, Len(tool_calls))
                   /\ result' = result
                   /\ UNCHANGED <<runStatus, tool_calls>>
    /\ UNCHANGED <<sessVars, auxVars, discVars, kind, cards, tick, svcVars,
                   seen, answered, batches, lastBatchOk, outs, taskVars>>

\* The Run returned by submit_tool_outputs: the service resumes the Run.
Resumed == "queued"

\* runs.submit_tool_outputs(tool_outputs): the service takes the outputs
\* and resumes the Run.  The specialists assign the returned Run to `run`;
\* the routing agent does not.
Submit ==
    /\ pc = "submit"
    /\ answered' = [i \in Ids |->
                      answered[i] + Cardinality({ j \in 1..Len(tool_outputs) :
                                                    tool_outputs[j].tool_call_id = i })]
    /\ outs' = [i \in Ids |->
                  IF \E j \in 1..Len(tool_outputs) :
                        tool_outputs[j].tool_call_id = i
                  THEN (CHOOSE o \in { tool_outputs[j].output :
                                         j \in { x \in 1..Len(tool_outputs) :
                                                   tool_outputs[x].tool_call_id = i } } :
                           TRUE)
                  ELSE outs[i]]
    /\ batches' = batches + 1
    /\ lastBatchOk' = /\ Len(tool_outputs) = Len(pending)
                      /\ \A j \in 1..Len(tool_outputs) :
                            tool_outputs[j].tool_call_id = pending[j].id
    /\ pending' = <<>>
    /\ svcStatus' = Resumed
    /\ runStatus' = IF kind = "routing" THEN runStatus ELSE Resumed
    /\ pc' = "poll"
    /\ UNCHANGED <<sessVars, auxVars, discVars, kind, cards, tool_calls, idx, tool_outputs, result, tick,
                   last_error, msgs, nextId, rounds, seen, executed,
                   hraised, delegated, taskVars>>

\* After the while loop: the failed check and messages.list.  The record of
\* the last round is dropped with the function's locals.
Finish ==
    /\ pc = "after"
    /\ result' = Returned(kind, runStatus, msgs)
    /\ pc' = "ret"
    /\ Leave
    /\ seen' = <<>>
    /\ answered' = [i \in Ids |-> 0]
    /\ executed' = [i \in Ids |-> 0]
    /\ outs' = [i \in Ids |-> "-"]
    /\ hraised' = {}
    /\ delegated' = [i \in Ids |-> "-"]
    /\ UNCHANGED <<sessVars, auxVars, discVars, kind, cards, tick, svcVars, batches, lastBatchOk, taskVars>>

----------------------------------------------------------------------------
(* The Task Lifecycle Manager (TaskUpdater) *)

Terminal == {"completed", "failed", "canceled"}

\* The state a TaskUpdater operation moves the Task to.
Target(op) ==
    CASE op = "submit" -> "submitted"
      [] op = "start_work" -> "working"
      [] op = "update_status" -> "working"
      [] op = "complete" -> "completed"
      [] op = "failed" -> "failed"
      [] op = "cancel" -> "canceled"

\* Outcome without the check of the Task's state: every operation succeeds.
OutcomeUnchecked(op, st) == "ok"

\* The outcome of operation op on a Task in state st: "ok", or the failure
\* the operation ends with.
Outcome(op, st) ==
    CASE op = "submit" -> IF st = "none" THEN "ok" ELSE "AlreadySubmitted"
      [] op = "start_work" ->
            IF st = "submitted" THEN "ok" ELSE "InvalidTransition"
      [] OTHER ->
            IF st \in {"submitted", "working"} THEN "ok"
            ELSE "InvalidTransition"

\* One TaskUpdater call: on success the Task moves and the event is
\* published; on failure nothing changes.  Yields the outcome in lastUpd.
Updater(op, msg) ==
    LET out == Outcome(op, taskStatus)
    IN /\ lastUpd' = [op |-> op, res |-> out]
       /\ nUpd' = nUpd + 1
       /\ IF out = "ok"
          THEN /\ taskStatus' = Target(op)
               /\ history' = Append(history, [state |-> Target(op), msg |-> msg])
          ELSE UNCHANGED <<taskStatus, history>>

----------------------------------------------------------------------------
(* FoundryAgentExecutor of the database agent *)

\* execute: updater.submit()
ExSubmit ==
    /\ epc = "submit"
    /\ Updater("submit", "-")
    /\ epc' = IF lastUpd'.res = "ok" THEN "start_work" ELSE "raised_out"
    /\ UNCHANGED <<sessVars, auxVars, discVars, kind, cards, loopVars, svcVars, ghostVars, ri, cancels>>

\* execute without its start_work call.
ExStartWorkSkipped ==
    /\ epc = "start_work"
    /\ epc' = "process"
    /\ UNCHANGED <<sessVars, auxVars, discVars, kind, cards, loopVars, svcVars,
                   ghostVars, taskStatus, history, ri, nUpd, lastUpd, cancels>>

\* execute: updater.start_work(); a failure leaves execute.
ExStartWork ==
    /\ epc = "start_work"
    /\ Updater("start_work", "-")
    /\ epc' = IF lastUpd'.res = "ok" THEN "process" ELSE "raised_out"
    /\ UNCHANGED <<sessVars, auxVars, discVars, kind, cards, loopVars, svcVars, ghostVars, ri, cancels>>

\* _process_request: message_parts[0].root.text and _get_or_create_agent;
\* either may raise, which the except clause turns into failed().
ExGetAgent ==
    /\ epc = "process"
    /\ \E raises \in BOOLEAN : epc' = IF raises THEN "failing" ELSE "status"
    /\ UNCHANGED <<sessVars, auxVars, discVars, kind, cards, loopVars, svcVars, ghostVars,
                   taskStatus, history, ri, nUpd, lastUpd, cancels>>

\* _process_request: the first update_status.
ExStatus ==
    /\ epc = "status"
    /\ Updater("update_status", "Database Agent is analyzing")
    /\ epc' = IF lastUpd'.res = "ok" THEN "starting" ELSE "failing"
    /\ UNCHANGED <<sessVars, auxVars, discVars, kind, cards, loopVars, svcVars, ghostVars, ri,
                   cancels>>

\* _process_request: update_status has returned and run_conversation is
\* called; nothing looks at the Task again before the loop starts.
ExRun ==
    /\ epc = "starting"
    /\ epc' = "run"
    /\ pc' = "start"
    /\ UNCHANGED <<sessVars, auxVars, discVars, kind, cards, runStatus, tool_calls, idx,
                   tool_outputs, result, tick, svcVars, ghostVars,
                   taskStatus, history, ri, nUpd, lastUpd, cancels>>

\* _process_request: run_conversation has returned or raised.
ExAfterRun ==
    /\ epc = "run"
    /\ pc \in {"ret", "raised"}
    /\ epc' = IF pc = "raised" THEN "failing"
              ELSE IF result = <<>> THEN "complete" ELSE "responses"
    /\ ri' = 1
    /\ UNCHANGED <<sessVars, auxVars, discVars, kind, cards, loopVars, svcVars, ghostVars,
                   taskStatus, history, nUpd, lastUpd, cancels>>

\* _process_request: one iteration of `for response in responses`.
ExResponse ==
    /\ epc = "responses"
    /\ ri <= Len(result)
    /\ Updater("update_status", result[ri])
    /\ IF lastUpd'.res = "ok"
       THEN /\ ri' = ri + 1
            /\ epc' = IF ri = Len(result) THEN "complete" ELSE "responses"
       ELSE /\ ri' = ri
            /\ epc' = "failing"
    /\ UNCHANGED <<sessVars, auxVars, discVars, kind, cards, loopVars, svcVars, ghostVars, cancels>>

\* final_message = responses[-1] if responses else '... completed.'
FinalMessage(responses) ==
    IF responses = <<>> THEN "Database analysis completed."
    ELSE responses[Len(responses)]

\* _process_request: task_updater.complete(final_message)
ExComplete ==
    /\ epc = "complete"
    /\ Updater("complete", FinalMessage(result))
    /\ epc' = IF lastUpd'.res = "ok" THEN "done" ELSE "failing"
    /\ UNCHANGED <<sessVars, auxVars, discVars, kind, cards, loopVars, svcVars, ghostVars, ri, cancels>>

\* The message of the failed event with the exception's text.
FailedMessageRaw(e) == e

\* The message of the failed event for a caught exception e: a fixed text.
FailedMessage(e) == "Database Agent failed to process the request."

\* _process_request: the except clause; a failure of failed() leaves execute.
ExFailed ==
    /\ epc = "failing"
    /\ Updater("failed", FailedMessage("str(e)"))
    /\ epc' = IF lastUpd'.res = "ok" THEN "done" ELSE "raised_out"
    /\ UNCHANGED <<sessVars, auxVars, discVars, kind, cards, loopVars, svcVars, ghostVars, ri, cancels>>

\* cancel may be served whenever execute is suspended at one of its awaits
\* of the TaskUpdater; run_conversation sleeps with time.sleep, calls the
\* service and its handlers synchronously and so never yields to the event
\* loop: nothing else of the process runs until it returns.
CanInterleave == epc \notin {"none", "submit", "run"}

\* FoundryAgentExecutor.cancel: updater.failed('Task cancelled by user')
Cancel ==
    /\ CanInterleave
    /\ cancels < MaxCancels
    /\ Updater("failed", "Task cancelled by user")
    /\ cancels' = cancels + 1
    /\ UNCHANGED <<sessVars, auxVars, discVars, kind, cards, loopVars, svcVars, ghostVars, epc, ri>>

----------------------------------------------------------------------------
(* RoutingAgent.create: discovery of the remote agents *)

\* The servers of the repository an address may point to, and the name of
\* the AgentCard each one serves.
Servers == {"compute", "storage", "database", "network", "cost_analysis",
            "recommendation"}

CardNameOf(server) ==
    CASE server = "compute" -> "Azure Compute Optimization Agent"
      [] server = "storage" -> "Azure Storage Optimization Agent"
      [] server = "database" -> "Azure Database Optimization Agent"
      [] server = "network" -> "Azure Network Optimization Agent"
      [] server = "cost_analysis" -> "Azure Cost Analysis Agent"
      [] server = "recommendation" -> "Azure Recommendation Orchestrator Agent"

\* remote_agent_addresses: up to MaxAddrs addresses of distinct servers.
AddressLists ==
    { a \in UNION { [1..n -> Servers] : n \in 0..MaxAddrs } :
        \A i, j \in 1..Len(a) : i # j => a[i] # a[j] }

\* What card_resolver.get_agent_card() does for one address: it returns the
\* card, raises httpx.ConnectError (unreachable), or raises another
\* exception (a malformed card).
ResolveOutcomes == {"card", "connect_error", "other_error"}

\* Only the first except clause: httpx.ConnectError.
CaughtConnectOnly(outcome) == outcome = "connect_error"

\* The except clauses of the loop body: httpx.ConnectError and Exception.
Caught(outcome) == outcome \in {"connect_error", "other_error"}

\* instance = cls(task_callback): empty connections and cards.
Create ==
    /\ dpc = "create"
    /\ dpc' = "resolve"
    /\ cards' = {}
    /\ remote_agent_connections' = {}
    /\ ai' = 1
    /\ UNCHANGED <<sessVars, auxVars, kind, loopVars, svcVars, ghostVars, taskVars,
                   addresses, nFailed>>

\* One iteration of `for address in remote_agent_addresses`.  An exception
\* no except clause catches leaves create.
Resolve ==
    /\ dpc = "resolve"
    /\ ai <= Len(addresses)
    /\ \E outcome \in ResolveOutcomes :
        IF outcome = "card"
        THEN /\ remote_agent_connections' =
                    remote_agent_connections \cup {CardNameOf(addresses[ai])}
             /\ cards' = cards \cup {CardNameOf(addresses[ai])}
             /\ ai' = ai + 1
             /\ UNCHANGED <<dpc, nFailed>>
        ELSE /\ nFailed' = nFailed + 1
             /\ IF Caught(outcome)
                THEN ai' = ai + 1 /\ dpc' = dpc
                ELSE ai' = ai /\ dpc' = "raised"
             /\ UNCHANGED <<cards, remote_agent_connections>>
    /\ UNCHANGED <<sessVars, auxVars, kind, loopVars, svcVars, ghostVars, taskVars, addresses>>

\* The loop is over: create returns the instance.
Return ==
    /\ dpc = "resolve"
    /\ ai > Len(addresses)
    /\ dpc' = "returned"
    /\ UNCHANGED <<sessVars, auxVars, kind, cards, loopVars, svcVars, ghostVars, taskVars,
                   addresses, ai, remote_agent_connections, nFailed>>

----------------------------------------------------------------------------
(* run_all.main: the server subprocesses *)

\* len(servers)
NServers == 7

\* subprocess.Popen(cmd, ...) and server_procs.append(process).
Spawn ==
    /\ mpc = "spawn"
    /\ mpc' = "wait"
    /\ procs' = [procs EXCEPT ![si] = "running"]
    /\ UNCHANGED <<sessVars, kind, cards, loopVars, svcVars, ghostVars, taskVars,
                   discVars, sizeVars, agentVars, si>>

\* ready = await wait_for_server_ready(server): True on a healthy answer,
\* False after the timeout; if not ready: process.kill(); sys.exit(1).
WaitReady ==
    /\ mpc = "wait"
    /\ \E ready \in BOOLEAN :
          IF ready
          THEN /\ si' = IF si = NServers THEN 1 ELSE si + 1
               /\ mpc' = IF si = NServers THEN "client" ELSE "spawn"
               /\ UNCHANGED procs
          ELSE /\ procs' = [procs EXCEPT ![si] = "killed"]
               /\ mpc' = "exited"
               /\ UNCHANGED si
    /\ UNCHANGED <<sessVars, kind, cards, loopVars, svcVars, ghostVars, taskVars,
                   discVars, sizeVars, agentVars>>

\* try: await run_client_main(); it finishes or raises, and the finally
\* clause runs either way.
Client ==
    /\ mpc = "client"
    /\ mpc' = "stopping"
    /\ si' = 1
    /\ UNCHANGED <<sessVars, kind, cards, loopVars, svcVars, ghostVars, taskVars,
                   discVars, sizeVars, agentVars, procs>>

\* finally: one iteration of `for process in server_procs`: a process that
\* still runs is terminated, and killed when it does not exit in 5 s.
Stop ==
    /\ mpc = "stopping"
    /\ \E exits \in BOOLEAN :
          procs' = IF procs[si] = "running"
                   THEN [procs EXCEPT ![si] = IF exits THEN "terminated"
                                                       ELSE "killed"]
                   ELSE procs
    /\ si' = IF si = NServers THEN si ELSE si + 1
    /\ mpc' = IF si = NServers THEN "exited" ELSE "stopping"
    /\ UNCHANGED <<sessVars, kind, cards, loopVars, svcVars, ghostVars, taskVars,
                   discVars, sizeVars, agentVars>>

\* A server process ends on its own.
ProcExit ==
    /\ mpc \notin {"idle", "exited"}
    /\ \E i \in 1..NServers :
          /\ procs[i] = "running"
          /\ procs' = [procs EXCEPT ![i] = "exited"]
    /\ UNCHANGED <<sessVars, kind, cards, loopVars, svcVars, ghostVars, taskVars,
                   discVars, sizeVars, agentVars, mpc, si>>

\* main is not running.
MainIdle == mpc = "idle" /\ si = 1 /\ procs = <<>>

----------------------------------------------------------------------------
(* FoundryAgentExecutor._get_or_create_agent *)

\* The execute calls made on one executor.
Execs == 1..MaxExecs

\* The test omitted: a new agent for every request.
CachedNever(agent) == FALSE

\* `if not self._foundry_agent` is false: an agent is there to reuse.
Cached(agent) == agent # 0

\* _get_or_create_agent within execute call r.  create_foundry_database_agent
\* and DatabaseAgent.create_agent call the model service synchronously and
\* never yield to the event loop, so test and assignment are one step.  A
\* create_agent call that raises creates nothing and leaves the field unset.
\* Agents are numbered as they are created; 0 stands for None.
GetOrCreate ==
    \E r \in Execs :
        /\ req[r].st = "waiting"
        /\ IF Cached(foundry_agent)
           THEN /\ req' = [req EXCEPT ![r] = [st |-> "got",
                                              agent |-> foundry_agent]]
                /\ UNCHANGED <<foundry_agent, nCreated>>
           ELSE \E raises \in BOOLEAN :
                  IF raises
                  THEN /\ req' = [req EXCEPT ![r] = [st |-> "raised",
                                                     agent |-> 0]]
                       /\ UNCHANGED <<foundry_agent, nCreated>>
                  ELSE /\ nCreated' = nCreated + 1
                       /\ foundry_agent' = nCreated + 1
                       /\ req' = [req EXCEPT ![r] = [st |-> "got",
                                                     agent |-> nCreated + 1]]
        /\ UNCHANGED <<sessVars, kind, cards, loopVars, svcVars, ghostVars, taskVars,
                       discVars, sizeVars, mainVars>>

\* No executor is looked at.
AgentIdle == foundry_agent = 0 /\ nCreated = 0 /\ req = <<>>

----------------------------------------------------------------------------
(* Right-sizing of VMs: compute_agent/azure_helpers.py, shared/azure_clients.py *)

\* size_map of _suggest_smaller_size, as a set of <<size, smaller size>>.
size_map ==
    { <<"Standard_D16s_v3", "Standard_D8s_v3">>,
      <<"Standard_D8s_v3", "Standard_D4s_v3">>,
      <<"Standard_D4s_v3", "Standard_D2s_v3">>,
      <<"Standard_D2s_v3", "Standard_B2s">>,
      <<"Standard_E16s_v3", "Standard_E8s_v3">>,
      <<"Standard_E8s_v3", "Standard_E4s_v3">>,
      <<"Standard_E4s_v3", "Standard_E2s_v3">>,
      <<"Standard_F16s_v2", "Standard_F8s_v2">>,
      <<"Standard_F8s_v2", "Standard_F4s_v2">>,
      <<"Standard_F4s_v2", "Standard_F2s_v2">> }

\* current_size in size_map
InSizeMap(size) == \E e \in size_map : e[1] = size

\* size_map.get(size, size)
SizeMapGet(size) ==
    IF InSizeMap(size) THEN (CHOOSE e \in size_map : e[1] = size)[2] ELSE size

\* vm_pricing of calculate_vm_cost, per hour, in ten-thousandths of a dollar.
vm_pricing ==
    { <<"Standard_B1s", 104>>, <<"Standard_B2s", 416>>,
      <<"Standard_D2s_v3", 960>>, <<"Standard_D4s_v3", 1920>>,
      <<"Standard_D8s_v3", 3840>>, <<"Standard_D16s_v3", 7680>>,
      <<"Standard_E2s_v3", 1260>>, <<"Standard_E4s_v3", 2520>>,
      <<"Standard_F2s_v2", 850>>, <<"Standard_F4s_v2", 1690>> }

\* The default of vm_pricing.get(size, 0.10), in ten-thousandths of a dollar.
DefaultRate == 1000

\* hours: int = 730
Hours == 730

\* cpu_threshold: float = 20.0
CpuThreshold == 20

\* `if cpu_avg < 10`: the more aggressive downsize.
AggressiveCpu == 10

\* calculate_vm_cost(size): hourly rate times 730 hours.
calculate_vm_cost(size) ==
    LET hourly_rate == IF \E e \in vm_pricing : e[1] = size
                       THEN (CHOOSE e \in vm_pricing : e[1] = size)[2]
                       ELSE DefaultRate
    IN hourly_rate * Hours

\* _suggest_smaller_size(current_size, cpu_avg)
suggest_smaller_size(current_size, cpu) ==
    IF cpu < AggressiveCpu /\ InSizeMap(current_size)
    THEN LET smaller == SizeMapGet(current_size)
         IN IF InSizeMap(smaller) THEN SizeMapGet(smaller) ELSE smaller
    ELSE SizeMapGet(current_size)

\* The VM sizes a subscription may hold: those the two tables name and one
\* that neither names.
VmSizes == { e[1] : e \in size_map } \cup { e[2] : e \in size_map }
           \cup { e[1] : e \in vm_pricing } \cup {"Standard_NC6"}

\* cpu_average_percent, in whole percent.
CpuValues == 0..100

NoRec == [recommended_size |-> "-", current_cost |-> 0, new_cost |-> 0,
          savings |-> 0]

\* get_vm_right_sizing_recommendations: the body of the loop for one VM
\* whose average CPU is below the threshold.
Recommend ==
    /\ rec = NoRec
    /\ vm_size \in VmSizes
    /\ cpu_avg < CpuThreshold
    /\ LET recommended_size == suggest_smaller_size(vm_size, cpu_avg)
           current_cost == calculate_vm_cost(vm_size)
           new_cost == calculate_vm_cost(recommended_size)
       IN rec' = [recommended_size |-> recommended_size,
                  current_cost |-> current_cost,
                  new_cost |-> new_cost,
                  savings |-> current_cost - new_cost]
    /\ UNCHANGED <<sessVars, kind, cards, loopVars, svcVars, ghostVars, taskVars,
                   discVars, vm_size, cpu_avg, mainVars, agentVars>>

\* No VM is being looked at.
SizeIdle == vm_size = "-" /\ cpu_avg = 0 /\ rec = NoRec

----------------------------------------------------------------------------
(* Specifications *)

\* The state of the loops, the service and the Task before a request.
InitRequest ==
    /\ pc = IF kind = "database" THEN "idle" ELSE "start"
    /\ runStatus = "none"
    /\ svcStatus = "none"
    /\ pending = <<>>
    /\ last_error = "-"
    /\ tool_calls = <<>>
    /\ idx = 1
    /\ tool_outputs = <<>>
    /\ result = <<>>
    /\ nextId = 1
    /\ rounds = 0
    /\ tick = 0
    /\ seen = <<>>
    /\ answered = [i \in Ids |-> 0]
    /\ executed = [i \in Ids |-> 0]
    /\ batches = 0
    /\ lastBatchOk = TRUE
    /\ outs = [i \in Ids |-> "-"]
    /\ hraised = {}
    /\ delegated = [i \in Ids |-> "-"]
    /\ epc = IF kind = "database" THEN "submit" ELSE "none"
    /\ taskStatus = "none"
    /\ history = <<>>
    /\ ri = 1
    /\ nUpd = 0
    /\ lastUpd = [op |-> "-", res |-> "-"]
    /\ cancels = 0

\* A process of one of the kinds ks; discovery is over for a routing agent.
CoreInit(ks) ==
    /\ kind \in ks
    /\ cards \in IF kind = "routing" THEN SUBSET CardNames ELSE {{}}
    /\ remote_agent_connections = cards
    /\ addresses = <<>>
    /\ ai = 1
    /\ dpc = "returned"
    /\ nFailed = 0
    /\ InitRequest

\* No earlier request was served.
NoEarlier == [context_id |-> "-", thread |-> 0]

\* What an earlier request left on the routing agent's thread.
EarlierMsgs == <<UserMsg, [role |-> "assistant", texts |-> <<"old">>]>>

\* The first request of an initialized process.
FirstInit ==
    /\ svcRaised = FALSE
    /\ thread = 0
    /\ earlier = NoEarlier
    /\ context_id = "c1"
    /\ azure_agent = "agent"
    /\ current_thread = IF kind = "routing" THEN 1 ELSE 0
    /\ msgs = <<>>

\* A request: the first one, or one after an earlier request with the same
\* or another context_id; for the routing agent also a request made while
\* create_agent has not run or has failed before its thread was made.
SessInit ==
    /\ svcRaised = FALSE
    /\ thread = 0
    /\ earlier \in {NoEarlier, [context_id |-> "c1", thread |-> 1]}
    /\ context_id \in IF earlier = NoEarlier THEN {"c1"} ELSE {"c1", "c2"}
    /\ IF kind = "routing"
       THEN /\ azure_agent \in {"none", "agent"}
            /\ current_thread \in IF azure_agent = "none" THEN {0} ELSE {0, 1}
            /\ earlier # NoEarlier => current_thread = 1
       ELSE azure_agent = "agent" /\ current_thread = 0
    /\ msgs = IF kind = "routing" /\ earlier # NoEarlier THEN EarlierMsgs
              ELSE <<>>

InitWith(ks) ==
    CoreInit(ks) /\ SessInit /\ SizeIdle /\ MainIdle /\ AgentIdle

Init == InitWith(Kinds)

Next ==
    \/ SvcStart \/ SvcRequire \/ SvcComplete \/ SvcFail
    \/ NotInitialized \/ ServiceCallRaises
    \/ CreateRun \/ Poll \/ ExecCall \/ Submit \/ Finish
    \/ ExSubmit \/ ExStartWork \/ ExGetAgent \/ ExStatus \/ ExRun \/ ExAfterRun
    \/ ExResponse \/ ExComplete \/ ExFailed \/ Cancel

Spec == Init /\ [][Next]_vars

\* The database agent alone: its executor and its run loop.
TaskInit ==
    CoreInit({"database"}) /\ FirstInit /\ SizeIdle /\ MainIdle /\ AgentIdle

\* The steps of the database agent's process.
TaskNext ==
    \/ SvcStart \/ SvcRequire \/ SvcComplete \/ SvcFail
    \/ ServiceCallRaises
    \/ CreateRun \/ Poll \/ ExecCall \/ Submit \/ Finish
    \/ ExSubmit \/ ExStartWork \/ ExGetAgent \/ ExStatus \/ ExRun \/ ExAfterRun
    \/ ExResponse \/ ExComplete \/ ExFailed \/ Cancel

TaskSpec == TaskInit /\ [][TaskNext]_vars

\* RoutingAgent.create alone, over every list of addresses.
DiscInit ==
    /\ kind = "routing"
    /\ cards = {}
    /\ remote_agent_connections = {}
    /\ addresses \in AddressLists
    /\ ai = 1
    /\ dpc = "create"
    /\ nFailed = 0
    /\ InitRequest
    /\ svcRaised = FALSE /\ thread = 0 /\ earlier = NoEarlier
    /\ context_id = "c1" /\ azure_agent = "none" /\ current_thread = 0
    /\ msgs = <<>>
    /\ SizeIdle /\ MainIdle /\ AgentIdle

DiscNext == Create \/ Resolve \/ Return

DiscSpec == DiscInit /\ [][DiscNext]_vars

\* get_vm_right_sizing_recommendations over every VM size and average CPU.
SizeInit ==
    /\ CoreInit({"compute"}) /\ FirstInit
    /\ vm_size \in VmSizes
    /\ cpu_avg \in CpuValues
    /\ rec = NoRec
    /\ MainIdle /\ AgentIdle

SizeNext == Recommend

SizeSpec == SizeInit /\ [][SizeNext]_vars

\* run_all.main from its start.
MainInit ==
    /\ CoreInit({"routing"}) /\ FirstInit
    /\ mpc = "spawn"
    /\ si = 1
    /\ procs = [i \in 1..NServers |-> "not_started"]
    /\ SizeIdle /\ AgentIdle

MainNext == Spawn \/ WaitReady \/ Client \/ Stop \/ ProcExit

MainSpec == MainInit /\ [][MainNext]_vars

\* Several execute calls on one new FoundryAgentExecutor.
AgentInit ==
    /\ CoreInit({"database"}) /\ FirstInit
    /\ foundry_agent = 0
    /\ nCreated = 0
    /\ req = [r \in Execs |-> [st |-> "waiting", agent |-> 0]]
    /\ SizeIdle /\ MainIdle

AgentNext == GetOrCreate

AgentSpec == AgentInit /\ [][AgentNext]_vars

\* The run loop is a running thread: each of its steps is eventually taken.
\* Nothing obliges the model service to move a Run on.
LoopStep ==
    \/ NotInitialized \/ ServiceCallRaises
    \/ CreateRun \/ Poll \/ ExecCall \/ Submit \/ Finish

FairSpec == Init /\ [][Next]_vars /\ WF_vars(LoopStep)

----------------------------------------------------------------------------
(* Properties *)

SeenIds == IdsOf(seen)

\* The loop is not in the middle of serving a requires_action round: it is
\* back at the poll, past the while loop, or has left the function, and not
\* because a call to the model service raised.
RoundOver == pc \in {"poll", "after", "ret", "raised"} /\ ~svcRaised

\* C1: whenever a poll observed k pending ToolCalls, the batch passed to
\* submit_tool_outputs holds exactly k outputs whose ids are, in order, the
\* ids of those calls, whatever the names, blobs and handler outcomes: once
\* the round is over every observed id has its output and no other id has.
C1_BatchMatchesCalls ==
    /\ lastBatchOk
    /\ RoundOver => /\ \A i \in SeenIds : answered[i] = 1
                    /\ \A i \in Ids \ SeenIds : answered[i] = 0

\* C2: every ToolCall id emitted in requires_action receives exactly one
\* ToolOutput before the Run resumes: none is answered or executed twice,
\* and none is unanswered when the loop polls again or exits.
C2_ExactlyOneOutput ==
    \A i \in Ids :
        /\ answered[i] <= 1
        /\ executed[i] <= 1
        /\ (RoundOver /\ i \in SeenIds) => answered[i] = 1

\* C3: once the Task is terminal, every later TaskUpdater call fails with
\* InvalidTransition and the Task's status and history stay as they are,
\* under every interleaving of execute and cancel.
C3_TerminalIsFinal ==
    [][(taskStatus \in Terminal) =>
          (taskStatus' = taskStatus /\ history' = history
           /\ (nUpd' # nUpd => lastUpd'.res = "InvalidTransition"))]_vars

\* A terminal Task on which a later call was refused.
C3_Witness ==
    /\ taskStatus = "completed"
    /\ lastUpd = [op |-> "failed", res |-> "InvalidTransition"]
    /\ cancels > 0

\* C4: when the specialist's Run ended in failed, the Task's terminal
\* transition is failed, never completed, and the failure reason is in the
\* Task's history (no call to the model service raised).
C4_FailedRunFailsTask ==
    (svcStatus = "failed" /\ ~svcRaised /\ taskStatus \in Terminal) =>
        /\ taskStatus = "failed"
        /\ epc = "done" =>
              \E j \in 1..Len(history) : history[j].msg = "Error: last_error"

\* C5: a delegation answers its ToolCall with the remote's Task only when
\* that Task is in a terminal state.
C5_DelegateResultIsTerminal ==
    \A i \in Ids :
        (answered[i] > 0 /\ outs[i] = "task_dump") => delegated[i] \in Terminal

\* C6: the loop enforces an upper bound on polling: from every poll it
\* eventually leaves, also when the service keeps the Run active for ever.
C6_PollingStops == [](pc = "poll" => <>(pc \in {"ret", "raised"}))

\* A send_message call naming an agent that is not a resolved card.
UnknownAgentCall(c) ==
    /\ kind = "routing"
    /\ c.name = "send_message"
    /\ c.args = "valid"
    /\ c.agent \notin cards

\* C7: a send_message call naming an unknown agent is answered with an error
\* payload, its batch is submitted, and the Run keeps being polled: the
\* request does not end on it.
C7_UnknownAgentIsReported ==
    \A j \in 1..Len(seen) :
        (UnknownAgentCall(seen[j]) /\ RoundOver /\ svcStatus \in Active) =>
            /\ answered[seen[j].id] = 1
            /\ outs[seen[j].id] \in ErrorPayloads
            /\ pc = "poll"

\* C8: when a handler raises, its call is answered {"error": message}, the
\* remaining calls are served, the batch is submitted and polling goes on;
\* no exception leaves the loop.
C8_HandlerErrorIsReported ==
    \A i \in hraised :
        /\ svcRaised \/ pc # "raised"
        /\ (RoundOver /\ svcStatus \in Active) =>
              /\ \A k \in SeenIds : answered[k] = 1
              /\ outs[i] \in ErrorPayloads
              /\ pc = "poll"

\* C9: a call of a function that is not registered is answered with the
\* unknown-function error payload, no handler runs for it and no exception
\* leaves the dispatch.
C9_UnknownFunctionIsReported ==
    \A j \in 1..Len(seen) :
        (seen[j].name \notin Registered(kind) /\ RoundOver) =>
            /\ pc # "raised"
            /\ answered[seen[j].id] = 1
            /\ outs[seen[j].id] = "error_unknown_function"
            /\ executed[seen[j].id] = 0

\* The loop reads the call's arguments blob.
ReadsArgs(k, c) == DecodesBeforeTry(k) \/ PassesArgs(k, c.name)

\* C10: a call whose blob cannot be decoded or does not fit the function's
\* parameters is answered with an error payload and the Run continues: the
\* failure never leaves the loop and never keeps the batch from being
\* submitted.
C10_InvalidArgumentsAreReported ==
    \A j \in 1..Len(seen) :
        (ReadsArgs(kind, seen[j]) /\ seen[j].args # "valid" /\ RoundOver) =>
            /\ pc # "raised"
            /\ result # <<"An error occurred while processing your message.">>
            /\ \A k \in SeenIds : answered[k] = 1
            /\ outs[seen[j].id] \in ErrorPayloads

\* C11: create over N addresses of which M fail to resolve returns, without
\* raising, an agent with exactly N-M cards and N-M connections; a failure
\* on one address does not keep the later addresses from being resolved.
C11_DiscoveryIsPartialFailureTolerant ==
    /\ dpc # "raised"
    /\ dpc = "returned" =>
          /\ ai = Len(addresses) + 1
          /\ Cardinality(cards) = Len(addresses) - nFailed
          /\ Cardinality(remote_agent_connections) = Len(addresses) - nFailed

\* create returned after a failed address that was followed by a resolved one.
C11_Witness ==
    /\ dpc = "returned"
    /\ Len(addresses) = 3
    /\ nFailed = 2
    /\ CardNameOf(addresses[3]) \in cards

\* C12: a reply to a delegated message that is not a success response
\* carrying a Task is answered with an error payload: every output the
\* routing agent submits is an error payload or the dump of a Task.
C12_UnexpectedReplyIsReported ==
    \A i \in Ids :
        (kind = "routing" /\ answered[i] > 0 /\ outs[i] \notin ErrorPayloads)
            => outs[i] = "task_dump"

\* C13: the terminal event a cancel request causes on a non-terminal Task
\* puts the Task in state canceled, not failed and not completed.
C13_CancelGivesCanceled ==
    \A j \in 1..Len(history) :
        history[j].msg = "Task cancelled by user" => history[j].state = "canceled"

\* C14: once a cancel request was made for the Task, its run loop submits
\* no further ToolOutputs and executes no further handler.
C14_CancelStopsTheLoop ==
    [][(cancels > 0) =>
          (batches' = batches /\ \A i \in Ids : executed'[i] <= executed[i])]_vars

\* C15: run_conversation never returns an empty list.
C15_NeverReturnsEmpty ==
    (pc = "ret" /\ kind # "routing") => result # <<>>

\* C16: a delegation whose remote Task has not reached a terminal state is
\* answered with an error (RemoteUnavailable / timeout) payload.
C16_PendingRemoteIsAnError ==
    \A i \in Ids :
        (answered[i] > 0 /\ delegated[i] \in RemoteTaskStates \ Terminal)
            => outs[i] \in ErrorPayloads

\* C17: while a Task's run loop is in its poll wait, another request served
\* by the same process (here: a cancel request) can take its step.
C17_PollWaitDoesNotBlock ==
    (epc = "run" /\ pc = "poll" /\ cancels < MaxCancels) => ENABLED Cancel

\* The fixed texts of the executor's failed events.
FailureTexts == {"Database Agent failed to process the request.",
                 "Task cancelled by user"}

\* C18: the message of every failed event is a fixed human-readable text,
\* never the text of the exception.
C18_FailedMessageIsReadable ==
    \A j \in 1..Len(history) :
        history[j].state = "failed" => history[j].msg \in FailureTexts

\* The executor's except clause moved the Task to failed.
C18_Witness ==
    /\ taskStatus = "failed"
    /\ epc = "done"
    /\ lastUpd = [op |-> "failed", res |-> "ok"]
    /\ cancels = 0

\* C19: a send_message call whose remote Task completed with final message
\* m is answered with the result payload carrying m.
C19_DelegationAnswersWithResult ==
    \A i \in Ids :
        (answered[i] > 0 /\ delegated[i] = "completed") => outs[i] = "result"

\* C20: under every interleaving of execute and cancel the Task's history
\* holds at most one terminal event.
C20_AtMostOneTerminalEvent ==
    Cardinality({ j \in 1..Len(history) : history[j].state \in Terminal }) <= 1

\* cancel ended the Task and execute's own terminal call was refused.
C20_Witness ==
    /\ taskStatus = "failed"
    /\ history[Len(history)].msg = "Task cancelled by user"
    /\ lastUpd = [op |-> "failed", res |-> "InvalidTransition"]
    /\ epc = "raised_out"

\* C30: every right-sizing recommendation has non-negative savings: the
\* recommended size costs no more per month than the current size.
C30_SavingsAreNonNegative ==
    rec # NoRec => rec.savings >= 0

\* C28: whenever main has exited, every server subprocess it started was
\* terminated or killed, or had ended on its own: none is left running.
C28_NoServerLeftRunning ==
    mpc = "exited" => \A i \in 1..NServers : procs[i] # "running"

NewestTexts(ms) ==
    LET withText == SelectSeq(AssistantDesc(ms), LAMBDA m : m.texts # <<>>)
    IN IF withText = <<>> THEN {}
       ELSE { withText[1].texts[j] : j \in 1..Len(withText[1].texts) }

\* C22: when the Run completed, the string process_user_message returns and
\* the final message of the Task's completed event are text of the most
\* recent agent message of the thread.
C22_ResultIsNewestMessage ==
    (svcStatus = "completed" /\ NewestTexts(msgs) # {} /\ ~svcRaised) =>
        /\ (kind = "routing" /\ pc = "ret") => result[1] \in NewestTexts(msgs)
        /\ (epc = "done" /\ taskStatus = "completed") =>
              history[Len(history)].msg \in NewestTexts(msgs)

\* C23: every agent name the instructions and the send_message tool tell
\* the model to pass is a key of the resolved card set, at least when the
\* cost analysis and the recommendation server were among the addresses
\* and every address was resolved.
C23_ToldNamesAreResolved ==
    (/\ dpc = "returned"
     /\ nFailed = 0
     /\ \E i, j \in 1..Len(addresses) :
           addresses[i] = "cost_analysis" /\ addresses[j] = "recommendation")
        => ModelAgentNames \subseteq cards

\* C25: the outputs of a round are submitted in one submit_tool_outputs
\* call that answers every call of the round, and no poll happens while a
\* call of the round is unanswered.
C25_OneBatchPerRound ==
    [][/\ (batches' # batches) =>
             /\ Len(tool_outputs) = Len(seen)
             /\ \A j \in 1..Len(seen) : tool_outputs[j].tool_call_id = seen[j].id
       /\ (tick' # tick) => \A i \in SeenIds : answered[i] = 1]_vars

\* A round of two calls was submitted and the loop polls again.
C25_Witness ==
    /\ pc = "poll"
    /\ Len(seen) = 2
    /\ batches >= 1
    /\ \A i \in SeenIds : answered[i] = 1
    /\ tick = 1

\* C24: the thread of a request is bound to its context_id: a request runs
\* on the thread of an earlier request exactly if both have the same
\* context_id.
C24_ThreadFollowsContext ==
    (thread # 0 /\ earlier # NoEarlier) =>
        ((context_id = earlier.context_id) <=> (thread = earlier.thread))

\* C26: the text process_user_message returns was written by this request's
\* own Run, not for an earlier request on the shared thread.
C26_AnswerIsOwn ==
    (kind = "routing" /\ pc = "ret" /\ svcStatus = "completed" /\ ~svcRaised)
        => result # <<"old">>

\* C27: process_user_message never raises: on every path, also when the
\* agent or thread is missing, when a call to the model service raises and
\* when a ToolCall's arguments cannot be decoded, it returns one string.
C27_RoutingNeverRaises ==
    kind = "routing" =>
        /\ pc # "raised"
        /\ pc = "ret" => Len(result) = 1

\* process_user_message returned its catch-all string after submit_tool_outputs
\* raised.
C27_Witness ==
    /\ kind = "routing"
    /\ pc = "ret"
    /\ svcRaised
    /\ seen # <<>>
    /\ result = <<"An error occurred while processing your message.">>

====
